---------------------------- MODULE Spec2Model ----------------------------
(***************************************************************************)
(* Model of textext/requirements_check.py: the trinary logic value, the    *)
(* result tree (RequirementCheckResult), the composable Requirement and    *)
(* the TexTextRequirementsChecker that wires the leaf probes together.     *)
(*                                                                         *)
(* Python values are represented as follows.                               *)
(*   True / False / None        the strings "True" / "False" / "None"      *)
(*   a message (a str)          a tuple of tokens, e.g. <<"GTK3 is found">> *)
(*   a list of messages         a sequence of such tuples                  *)
(*   a file system path         a non-empty tuple of path components       *)
(*   None where a path may be   the empty tuple <<>>                       *)
(*   a dict                     a function on the set of its keys          *)
(*   a raised exception         the field exc of the threaded state        *)
(***************************************************************************)
EXTENDS Integers, Sequences, FiniteSets, TLC

VARIABLES pc, req, checker, raw_result, check_result, log, retval, exc, ncv, tri

vars == <<pc, req, checker, raw_result, check_result, log, retval, exc, ncv, tri>>

PyTrue == "True"
PyFalse == "False"
PyNone == "None"

TriValues == {PyTrue, PyFalse, PyNone}

NoPath == <<>>

\* Python's (not x) for x in {True, False, None}: None is falsy.
PyNot(x) == IF x = PyTrue THEN PyFalse ELSE PyTrue

-----------------------------------------------------------------------------
(* class TrinaryLogicValue *)

\* TrinaryAnd with the two tests in the wrong order.
TrinaryAndUnknownFirst(self, rhs) ==
    IF rhs = PyNone \/ self = PyNone THEN PyNone
    ELSE IF rhs = PyFalse \/ self = PyFalse THEN PyFalse
    ELSE PyTrue

TrinaryAnd(self, rhs) ==
    IF rhs = PyFalse \/ self = PyFalse THEN PyFalse
    ELSE IF rhs = PyNone \/ self = PyNone THEN PyNone
    ELSE PyTrue

TrinaryOr(self, rhs) ==
    IF rhs = PyTrue \/ self = PyTrue THEN PyTrue
    ELSE IF rhs = PyNone \/ self = PyNone THEN PyNone
    ELSE PyFalse

TrinaryInvert(self) ==
    IF self = PyNone THEN PyNone ELSE PyNot(self)

TrinaryEq(self, rhs) ==
    (self = PyNone /\ rhs = PyNone) \/ self = rhs

TrinaryNe(self, rhs) == ~TrinaryEq(self, rhs)

-----------------------------------------------------------------------------
(* class RequirementCheckResult *)

EmptyKwargs == [k \in {} |-> NoPath]

\* dict.update: the keys of other win.
DictUpdate(d, other) ==
    [k \in (DOMAIN d) \cup (DOMAIN other) |->
        IF k \in DOMAIN other THEN other[k] ELSE d[k]]

\* RequirementCheckResult.__init__; msg_is_list is FALSE when the caller
\* passed a bare string (held as the one-element sequence of it).
RequirementCheckResult(value, messages, msg_is_list, nested, kind, kwargs) ==
    [value |-> value,
     messages |-> messages,
     msg_is_list |-> msg_is_list,
     nested |-> nested,
     is_and_node |-> (kind = "and"),
     is_or_node |-> (kind = "or"),
     is_not_node |-> (kind = "not"),
     is_critical |-> PyNone,
     kwargs |-> kwargs]

\* The value of a variable that holds no result yet.
NoResult == [none |-> TRUE]

\* MergeFirst giving the merged node the value of the child it absorbs.
MergeFirstChildValue(self, nested, kind) ==
    RequirementCheckResult(nested[1].value,
                           nested[1].messages \o self.messages,
                           TRUE,
                           nested[1].nested \o Tail(nested),
                           kind,
                           DictUpdate(self.kwargs, nested[1].kwargs))

MergeFirst(self, nested, kind) ==
    RequirementCheckResult(self.value,
                           nested[1].messages \o self.messages,
                           TRUE,
                           nested[1].nested \o Tail(nested),
                           kind,
                           DictUpdate(self.kwargs, nested[1].kwargs))

\* MergeLast giving the merged node the value of the child it absorbs.
MergeLastChildValue(self, nested, kind) ==
    LET n == Len(nested) IN
    RequirementCheckResult(nested[n].value,
                           self.messages \o nested[n].messages,
                           TRUE,
                           SubSeq(nested, 1, n - 1) \o nested[n].nested,
                           kind,
                           DictUpdate(self.kwargs, nested[n].kwargs))

\* MergeLast putting the absorbed child's children in front.
MergeLastInFront(self, nested, kind) ==
    LET n == Len(nested) IN
    RequirementCheckResult(self.value,
                           self.messages \o nested[n].messages,
                           TRUE,
                           nested[n].nested \o SubSeq(nested, 1, n - 1),
                           kind,
                           DictUpdate(self.kwargs, nested[n].kwargs))

MergeLast(self, nested, kind) ==
    LET n == Len(nested) IN
    RequirementCheckResult(self.value,
                           self.messages \o nested[n].messages,
                           TRUE,
                           SubSeq(nested, 1, n - 1) \o nested[n].nested,
                           kind,
                           DictUpdate(self.kwargs, nested[n].kwargs))

RECURSIVE Flatten(_)
Flatten(self) ==
    IF Len(self.nested) = 0 THEN self
    ELSE
      LET nested == [i \in 1..Len(self.nested) |-> Flatten(self.nested[i])]
          n == Len(nested)
      IN
      IF nested[1].is_or_node /\ self.is_or_node THEN MergeFirst(self, nested, "or")
      ELSE IF nested[1].is_and_node /\ self.is_and_node THEN MergeFirst(self, nested, "and")
      ELSE IF nested[n].is_or_node /\ self.is_or_node THEN MergeLast(self, nested, "or")
      ELSE IF nested[n].is_and_node /\ self.is_and_node THEN MergeLast(self, nested, "and")
      ELSE IF nested[n].is_not_node
           THEN [self EXCEPT !.nested = nested,
                             !.kwargs = DictUpdate(self.kwargs, nested[n].kwargs)]
      ELSE [self EXCEPT !.nested = nested]

\* MarkCriticalErrors passing non_critical_value unchanged below a Not node.
RECURSIVE MarkCriticalErrorsNoInvert(_, _)
MarkCriticalErrorsNoInvert(self, non_critical_value) ==
    IF TrinaryEq(self.value, non_critical_value) THEN self
    ELSE IF TrinaryEq(self.value, PyNone) THEN self
    ELSE [self EXCEPT !.is_critical = PyTrue,
                      !.nested = [i \in 1..Len(self.nested) |->
                                    MarkCriticalErrorsNoInvert(self.nested[i],
                                                               non_critical_value)]]

\* MarkCriticalErrors marking the node it is called on and no child.
MarkCriticalErrorsRootOnly(self, non_critical_value) ==
    IF TrinaryEq(self.value, non_critical_value) THEN self
    ELSE IF TrinaryEq(self.value, PyNone) THEN self
    ELSE [self EXCEPT !.is_critical = PyTrue]

RECURSIVE MarkCriticalErrors(_, _)
MarkCriticalErrors(self, non_critical_value) ==
    IF TrinaryEq(self.value, non_critical_value) THEN self
    ELSE IF TrinaryEq(self.value, PyNone) THEN self
    ELSE
      LET marked == [self EXCEPT !.is_critical = PyTrue]
          afterAndOr ==
            IF marked.is_and_node \/ marked.is_or_node
            THEN [marked EXCEPT !.nested =
                    [i \in 1..Len(marked.nested) |->
                        IF TrinaryNe(marked.nested[i].value, non_critical_value)
                        THEN MarkCriticalErrors(marked.nested[i], non_critical_value)
                        ELSE marked.nested[i]]]
            ELSE marked
      IN
      IF afterAndOr.is_not_node
      THEN [afterAndOr EXCEPT !.nested =
              [i \in 1..Len(afterAndOr.nested) |->
                  MarkCriticalErrors(afterAndOr.nested[i], PyNot(non_critical_value))]]
      ELSE afterAndOr

\* RequirementCheckResult.__getitem__: KeyError when the key is absent.
HasItem(self, item) == item \in DOMAIN self.kwargs
GetItem(self, item) == self.kwargs[item]

-----------------------------------------------------------------------------
(* class Requirement *)

MessageTypes == {"ANY", "SUCCESS", "ERROR", "UNKNOWN"}

EmptyBuckets == [t \in MessageTypes |-> <<>>]

\* Requirement.__init__. id names the object; criteria is the bound probe.
\* overwrite_messages = <<>> stands for None (both are falsy in check()).
Requirement(id, criteria) ==
    [id |-> id,
     criteria |-> criteria,
     prepended_messages |-> EmptyBuckets,
     appended_messages |-> EmptyBuckets,
     overwrite_messages |-> <<>>,
     on_unknown_callbacks |-> <<>>,
     on_success_callbacks |-> <<>>,
     on_failure_callbacks |-> <<>>]

\* The builder methods; message is the list the method normalises to.
PrependMessage(self, result_type, message) ==
    [self EXCEPT !.prepended_messages[result_type] = @ \o message]

OverwriteCheckMessage(self, message) ==
    [self EXCEPT !.overwrite_messages = message]

AppendMessage(self, result_type, message) ==
    [self EXCEPT !.appended_messages[result_type] = @ \o message]

OnSuccess(self, callback) ==
    [self EXCEPT !.on_success_callbacks = Append(@, callback)]

OnFailure(self, callback) ==
    [self EXCEPT !.on_failure_callbacks = Append(@, callback)]

OnUnknown(self, callback) ==
    [self EXCEPT !.on_unknown_callbacks = Append(@, callback)]

ReqAnd(self, rhs) ==
    Requirement(<<"and">> \o self.id \o rhs.id,
                [fn |-> "and_impl", self |-> self, rhs |-> rhs])

ReqOr(self, rhs) ==
    Requirement(<<"or">> \o self.id \o rhs.id,
                [fn |-> "or_impl", self |-> self, rhs |-> rhs])

ReqInvert(self) ==
    Requirement(<<"not">> \o self.id,
                [fn |-> "invert_impl", self |-> self])

\* One entry of the history of an evaluation: a criteria call ("call"), its
\* return ("probed"), a callback call ("cb") or the return of check()
\* ("ret"), with the call depth it happened at and the messages then on the
\* result.
Event(ev, id, depth, value, cb, messages) ==
    [ev |-> ev, id |-> id, depth |-> depth, value |-> value, cb |-> cb,
     messages |-> messages]

\* The callbacks. Each call is recorded; the checker's callbacks write its
\* fields, and result["path"] raises KeyError when the result has no path.
CallCallback(callback, id, result, st) ==
    LET st1 == [st EXCEPT !.log = Append(@, Event("cb", id, st.depth, result.value,
                                                   callback.name, result.messages))]
    IN
    CASE callback.fn = "record" -> st1
      [] callback.fn = "set_inkscape" ->
           IF HasItem(result, "path")
           THEN [st1 EXCEPT !.checker.inkscape_executable = GetItem(result, "path")]
           ELSE [st1 EXCEPT !.exc = "KeyError"]
      [] callback.fn = "add_latex" ->
           IF HasItem(result, "path")
           THEN [st1 EXCEPT !.checker.available_tex_to_pdf_converters =
                    DictUpdate(@, [k \in {callback.name} |-> GetItem(result, "path")])]
           ELSE [st1 EXCEPT !.exc = "KeyError"]
      [] callback.fn = "set_pygtk" -> [st1 EXCEPT !.checker.pygtk_is_found = TRUE]
      [] callback.fn = "set_tkinter" -> [st1 EXCEPT !.checker.tkinter_is_found = TRUE]

RECURSIVE FireCallbacks(_, _, _, _)
FireCallbacks(callbacks, id, result, st) ==
    IF callbacks = <<>> \/ st.exc # "none" THEN st
    ELSE FireCallbacks(Tail(callbacks), id, result,
                       CallCallback(Head(callbacks), id, result, st))

\* PrependAndFire calling the callbacks before the bucket is prepended.
FireThenPrepend(self, r, v, result_type, callbacks) ==
    IF TrinaryEq(r.result.value, v)
    THEN [result |-> [r.result EXCEPT !.messages =
                          self.prepended_messages[result_type] \o @],
          st |-> FireCallbacks(callbacks, self.id, r.result, r.st)]
    ELSE r

\* One (if result.value == TrinaryLogicValue(v)) block of the first half of
\* check(): prepend the bucket, then call the callbacks in order.
PrependAndFire(self, r, v, result_type, callbacks) ==
    IF TrinaryEq(r.result.value, v)
    THEN LET result == [r.result EXCEPT !.messages =
                            self.prepended_messages[result_type] \o @]
         IN [result |-> result, st |-> FireCallbacks(callbacks, self.id, result, r.st)]
    ELSE r

\* AppendIf leaving out the bucket of the Unknown outcome.
AppendIfKnown(self, result, v, result_type) ==
    IF TrinaryEq(result.value, v) /\ v # PyNone
    THEN [result EXCEPT !.messages = @ \o self.appended_messages[result_type]]
    ELSE result

\* One (if) block of the second half of check().
AppendIf(self, result, v, result_type) ==
    IF TrinaryEq(result.value, v)
    THEN [result EXCEPT !.messages = @ \o self.appended_messages[result_type]]
    ELSE result

\* A probe of the algebra's own tests: it returns the next value the
\* environment hands it, with one message.
ProbeResult(value) ==
    RequirementCheckResult(value, << <<"c">> >>, TRUE, <<>>, "leaf", EmptyKwargs)

\* The name under which the environment holds a leaf probe's outcome: the
\* program name for find_executable(prog_name), the method name otherwise.
ProbeKey(c) == IF c.fn = "find_executable" THEN c.args[1] ELSE c.fn

RECURSIVE Check(_, _)
RECURSIVE Criteria(_, _)

\* AndImpl short-circuiting: rhs is not checked once self is False.
AndImplShortCircuit(self, rhs, st) ==
    LET L == Check(self, st) IN
    IF L.st.exc # "none" THEN L
    ELSE IF L.result.value = PyFalse
         THEN [result |-> RequirementCheckResult(PyFalse, <<>>, TRUE, <<L.result>>,
                                                 "and", EmptyKwargs),
               st |-> L.st]
    ELSE LET R == Check(rhs, L.st) IN
         IF R.st.exc # "none" THEN R
         ELSE [result |-> RequirementCheckResult(
                              TrinaryAnd(L.result.value, R.result.value),
                              <<>>, TRUE, <<L.result, R.result>>, "and", EmptyKwargs),
               st |-> R.st]

AndImpl(self, rhs, st) ==
    LET L == Check(self, st) IN
    IF L.st.exc # "none" THEN L
    ELSE LET R == Check(rhs, L.st) IN
         IF R.st.exc # "none" THEN R
         ELSE [result |-> RequirementCheckResult(
                              TrinaryAnd(L.result.value, R.result.value),
                              <<>>, TRUE, <<L.result, R.result>>, "and", EmptyKwargs),
               st |-> R.st]

\* OrImpl short-circuiting: rhs is not checked once self is True.
OrImplShortCircuit(self, rhs, st) ==
    LET L == Check(self, st) IN
    IF L.st.exc # "none" THEN L
    ELSE IF L.result.value = PyTrue
         THEN [result |-> RequirementCheckResult(PyTrue, <<>>, TRUE, <<L.result>>,
                                                 "or", EmptyKwargs),
               st |-> L.st]
    ELSE LET R == Check(rhs, L.st) IN
         IF R.st.exc # "none" THEN R
         ELSE [result |-> RequirementCheckResult(
                              TrinaryOr(L.result.value, R.result.value),
                              <<>>, TRUE, <<L.result, R.result>>, "or", EmptyKwargs),
               st |-> R.st]

OrImpl(self, rhs, st) ==
    LET L == Check(self, st) IN
    IF L.st.exc # "none" THEN L
    ELSE LET R == Check(rhs, L.st) IN
         IF R.st.exc # "none" THEN R
         ELSE [result |-> RequirementCheckResult(
                              TrinaryOr(L.result.value, R.result.value),
                              <<>>, TRUE, <<L.result, R.result>>, "or", EmptyKwargs),
               st |-> R.st]

InvertImpl(self, st) ==
    LET L == Check(self, st) IN
    IF L.st.exc # "none" THEN L
    ELSE [result |-> RequirementCheckResult(
                         TrinaryInvert(L.result.value),
                         <<>>, TRUE, <<L.result>>, "not", EmptyKwargs),
          st |-> L.st]

\* self.criteria(): the composite implementations, the test probe, or one of
\* the checker's leaf probes, whose outcome in this environment is st.env.
Criteria(self, st) ==
    LET c == self.criteria IN
    CASE c.fn = "and_impl" -> AndImpl(c.self, c.rhs, st)
      [] c.fn = "or_impl" -> OrImpl(c.self, c.rhs, st)
      [] c.fn = "invert_impl" -> InvertImpl(c.self, st)
      [] c.fn = "probe" ->
           [result |-> ProbeResult(Head(st.oracle)),
            st |-> [st EXCEPT !.oracle = Tail(@)]]
      [] OTHER ->
           [result |-> st.env[ProbeKey(c)].result,
            st |-> [st EXCEPT !.exc = st.env[ProbeKey(c)].exc]]

Check(self, st) ==
    LET called == [st EXCEPT !.log = Append(@, Event("call", self.id, st.depth,
                                                     PyNone, "", <<>>)),
                             !.depth = @ + 1]
        c == Criteria(self, called)
    IN
    IF c.st.exc # "none" THEN c
    ELSE
      LET st0 == [c.st EXCEPT !.depth = st.depth,
                              !.log = Append(@, Event("probed", self.id, st.depth,
                                                      c.result.value, "",
                                                      c.result.messages))]
          r0 == IF ~c.result.msg_is_list
                THEN [c.result EXCEPT !.msg_is_list = TRUE]
                ELSE c.result
          r1 == IF self.overwrite_messages # <<>>
                THEN [r0 EXCEPT !.messages = self.overwrite_messages]
                ELSE r0
          r2 == [r1 EXCEPT !.messages = self.prepended_messages["ANY"] \o @]
          s1 == PrependAndFire(self, [result |-> r2, st |-> st0], PyTrue,
                               "SUCCESS", self.on_success_callbacks)
          s2 == IF s1.st.exc # "none" THEN s1
                ELSE PrependAndFire(self, s1, PyFalse, "ERROR", self.on_failure_callbacks)
          s3 == IF s2.st.exc # "none" THEN s2
                ELSE PrependAndFire(self, s2, PyNone, "UNKNOWN", self.on_unknown_callbacks)
      IN
      IF s3.st.exc # "none" THEN s3
      ELSE
        LET a0 == [s3.result EXCEPT !.messages = @ \o self.appended_messages["ANY"]]
            a1 == AppendIf(self, a0, PyTrue, "SUCCESS")
            a2 == AppendIf(self, a1, PyFalse, "ERROR")
            a3 == AppendIf(self, a2, PyNone, "UNKNOWN")
        IN [result |-> a3,
            st |-> [s3.st EXCEPT !.log = Append(@, Event("ret", self.id, st.depth,
                                                         a3.value, "", a3.messages))]]

\* The state an evaluation threads through the calls: the environment's
\* answers, the history, the call depth, a raised exception, the checker.
EvalState(env, oracle, chk) ==
    [env |-> env, oracle |-> oracle, log |-> <<>>, depth |-> 0, exc |-> "none",
     checker |-> chk]

TriIdle == [a |-> PyNone, b |-> PyNone, c |-> PyNone, op |-> "idle", res |-> PyNone]

-----------------------------------------------------------------------------
(* Requirement expressions built with &, | and ~ over decorated leaves. *)

MaxNodes == 7

Record(name) == [fn |-> "record", name |-> name]

ReqNames == <<"r1", "r2", "r3">>

Leaf(i) == Requirement(<<ReqNames[i]>>, [fn |-> "probe"])

\* Three Requirement objects with different decorations.
LeafReq(i) ==
    CASE i = 1 ->
           OnUnknown(OnFailure(OnSuccess(OnSuccess(
           AppendMessage(AppendMessage(AppendMessage(AppendMessage(
           PrependMessage(PrependMessage(PrependMessage(PrependMessage(
             Leaf(1),
             "ANY", << <<"a">> >>), "SUCCESS", << <<"b">> >>),
             "ERROR", << <<"b_err">> >>), "UNKNOWN", << <<"b_unk">> >>),
             "SUCCESS", << <<"d">> >>), "ERROR", << <<"d_err">> >>),
             "UNKNOWN", << <<"d_unk">> >>), "ANY", << <<"e">> >>),
             Record("s1")), Record("s2")), Record("f1")), Record("u1"))
      [] i = 2 ->
           OnFailure(OnFailure(OnSuccess(
           AppendMessage(AppendMessage(
           PrependMessage(PrependMessage(
           OverwriteCheckMessage(Leaf(2), << <<"ow">> >>),
             "ANY", << <<"p1">>, <<"p2">> >>), "ERROR", << <<"q">> >>),
             "ERROR", << <<"x1">>, <<"x2">> >>), "ANY", << <<"y">> >>),
             Record("s3")), Record("f2")), Record("f3"))
      [] OTHER ->
           OnUnknown(OnFailure(OnSuccess(
           AppendMessage(AppendMessage(PrependMessage(Leaf(i),
             "UNKNOWN", << <<"k">> >>), "UNKNOWN", << <<"l">> >>),
             "SUCCESS", << <<"m">> >>),
             Record("s4")), Record("f4")), Record("u2"))

\* The object at the k-th leaf position, left to right: the objects in
\* turn, so that an expression with more leaves than there are objects has
\* an object standing at several places.
LeafAt(k) == LeafReq(1 + ((k - 1) % Len(ReqNames)))

RECURSIVE NumLeaves(_)
NumLeaves(r) ==
    CASE r.criteria.fn \in {"and_impl", "or_impl"} ->
           NumLeaves(r.criteria.self) + NumLeaves(r.criteria.rhs)
      [] r.criteria.fn = "invert_impl" -> NumLeaves(r.criteria.self)
      [] OTHER -> 1

\* The expressions of exactly n nodes whose leaves, left to right, are the
\* objects at positions k, k+1, ...
RECURSIVE Exprs(_, _)
Exprs(n, k) ==
    IF n < 1 THEN {}
    ELSE IF n = 1 THEN {LeafAt(k)}
    ELSE {ReqInvert(e) : e \in Exprs(n - 1, k)}
         \cup UNION {UNION {UNION {{ReqAnd(l, r), ReqOr(l, r)} :
                                 r \in Exprs(n - 1 - i, k + NumLeaves(l))} :
                               l \in Exprs(i, k)} :
                        i \in 1..(n - 2)}

ReqInit ==
    /\ pc = "built"
    /\ \E n \in 1..MaxNodes : req \in Exprs(n, 1)
    /\ checker = NoResult
    /\ raw_result = NoResult
    /\ check_result = NoResult
    /\ log = <<>>
    /\ retval = PyNone
    /\ exc = "none"
    /\ ncv = PyNone
    /\ tri = TriIdle

\* A top-level req.check(), each probe call answered by the environment.
ReqCheck ==
    /\ pc = "built"
    /\ \E oracle \in [1..NumLeaves(req) -> TriValues] :
         LET r == Check(req, EvalState(NoResult, oracle, NoResult)) IN
         /\ raw_result' = r.result
         /\ check_result' = r.result
         /\ log' = r.st.log
         /\ exc' = r.st.exc
    /\ pc' = "checked"
    /\ UNCHANGED <<req, checker, retval, ncv, tri>>

\* check_result = check_result.flatten()
ReqFlatten ==
    /\ pc = "checked"
    /\ check_result' = Flatten(check_result)
    /\ pc' = "flat"
    /\ UNCHANGED <<req, checker, raw_result, log, retval, exc, ncv, tri>>

\* check_result.mark_critical_errors(v), on the tree as checked or flattened
ReqMark ==
    /\ pc \in {"checked", "flat"}
    /\ \E v \in {PyTrue, PyFalse} :
         /\ check_result' = MarkCriticalErrors(check_result, v)
         /\ ncv' = v
    /\ pc' = IF pc = "flat" THEN "flat_marked" ELSE "marked"
    /\ UNCHANGED <<req, checker, raw_result, log, retval, exc, tri>>

ReqNext == ReqCheck \/ ReqFlatten \/ ReqMark

SpecReq == ReqInit /\ [][ReqNext]_vars

-----------------------------------------------------------------------------
(* class TexTextRequirementsChecker *)

NumDirs == 2
MaxLines == 2

DirNames == <<"usr_bin", "usr_local_bin", "opt_bin", "home_bin">>

\* system_env.get_system_path(): the ordered search path.
SystemPath == [i \in 1..NumDirs |-> <<DirNames[i]>>]

\* system_env.executable_names: the candidate file names of each program.
ExecutableNames(prog_name) == <<prog_name>>

\* os.path.join(path, exe_name)
PathJoin(path, exe_name) == path \o <<exe_name>>

\* What system_env.call_command can do: return the output, fail to launch
\* the executable, or see it exit with a non-zero code.
CallStatuses == {"ok", "OSError", "CalledProcessError"}

\* A line of the output of inkscape --version: whether the version pattern
\* matches it and, if so, the version and its major number.
StdoutLines ==
    {[matches |-> FALSE, found_version |-> "", major |-> 0],
     [matches |-> TRUE, found_version |-> "0.92", major |-> 0],
     [matches |-> TRUE, found_version |-> "1.2", major |-> 1]}

Stdouts == UNION {[1..n -> StdoutLines] : n \in 1..MaxLines}

CallOutcomes ==
    {[status |-> "OSError", stdout |-> <<>>],
     [status |-> "CalledProcessError", stdout |-> <<>>]}
    \cup {[status |-> "ok", stdout |-> out] : out \in Stdouts}

\* The value config holds for "<prog_name>-executable", when it holds one.
ConfiguredPath(prog_name) == <<"custom", prog_name>>

ConfigValues(prog_name) == {NoPath, ConfiguredPath(prog_name)}

\* The files a probe for prog_name can look at.
CandidatePaths(prog_name) ==
    {ConfiguredPath(prog_name)}
    \cup {PathJoin(SystemPath[i], ExecutableNames(prog_name)[j]) :
            i \in 1..NumDirs, j \in 1..Len(ExecutableNames(prog_name))}

\* TexTextRequirementsChecker.__init__
NewChecker ==
    [available_tex_to_pdf_converters |-> EmptyKwargs,
     available_pdf_to_svg_converters |-> EmptyKwargs,
     inkscape_prog_name |-> "inkscape",
     pdflatex_prog_name |-> "pdflatex",
     lualatex_prog_name |-> "lualatex",
     xelatex_prog_name |-> "xelatex",
     inkscape_executable |-> NoPath,
     pygtk_is_found |-> FALSE,
     tkinter_is_found |-> FALSE]

\* A probe's outcome: the result it returns, or the exception it raises.
Returns(result) == [exc |-> "none", result |-> result]
Raises(e) == [exc |-> e, result |-> NoResult]

LeafResult(value, messages, msg_is_list, kwargs) ==
    RequirementCheckResult(value, messages, msg_is_list, <<>>, "leaf", kwargs)

PathKwargs(path) == [k \in {"path"} |-> path]

find_pygtk3(call) ==
    IF call.status \in {"KeyError", "OSError", "CalledProcessError"}
    THEN Returns(LeafResult(PyFalse, << <<"GTK3 is not found">> >>, TRUE, EmptyKwargs))
    ELSE Returns(LeafResult(PyTrue, << <<"GTK3 is found">> >>, TRUE, EmptyKwargs))

find_tkinter(call) ==
    IF call.status \in {"KeyError", "OSError", "CalledProcessError"}
    THEN Returns(LeafResult(PyFalse, << <<"TkInter is not found">> >>, TRUE, EmptyKwargs))
    ELSE Returns(LeafResult(PyTrue, << <<"TkInter is found">> >>, TRUE, EmptyKwargs))

\* executables: the paths that are files the user may execute.
check_executable(filename, executables) ==
    filename # NoPath /\ filename \in executables

\* The inner loop of _find_executable_in_path over the search path, from
\* position i on.
RECURSIVE ScanSystemPath(_, _, _, _, _)
ScanSystemPath(exe_name, i, messages, first_path, executables) ==
    IF i > Len(SystemPath) THEN [messages |-> messages, first_path |-> first_path]
    ELSE
      LET path == SystemPath[i]
          full_path_guess == PathJoin(path, exe_name)
      IN
      IF check_executable(full_path_guess, executables)
      THEN ScanSystemPath(exe_name, i + 1,
                          Append(messages, <<"exe ", exe_name, " is found at ">> \o path),
                          IF first_path = NoPath THEN path ELSE first_path,
                          executables)
      ELSE ScanSystemPath(exe_name, i + 1, messages, first_path, executables)

\* The outer loop over the candidate names, from position j on.
RECURSIVE ScanExecutableNames(_, _, _, _)
ScanExecutableNames(names, j, messages, executables) ==
    IF j > Len(names) THEN LeafResult(PyFalse, messages, TRUE, EmptyKwargs)
    ELSE
      LET exe_name == names[j]
          scan == ScanSystemPath(exe_name, 1, messages, NoPath, executables)
      IN
      IF scan.first_path # NoPath
      THEN LeafResult(PyTrue, scan.messages, TRUE,
                      PathKwargs(PathJoin(scan.first_path, exe_name)))
      ELSE ScanExecutableNames(names, j + 1,
                               Append(scan.messages,
                                      <<"exe ", exe_name, " is NOT found in PATH">>),
                               executables)

find_executable_in_path(prog_name, executables) ==
    ScanExecutableNames(ExecutableNames(prog_name), 1, <<>>, executables)

\* executable_path is config.get(prog_name + "-executable", None).
find_executable(prog_name, executable_path, executables) ==
    IF executable_path # NoPath /\ check_executable(executable_path, executables)
    THEN LeafResult(PyTrue,
                    << <<prog_name, " is found at ">> \o executable_path >>,
                    FALSE, PathKwargs(executable_path))
    ELSE find_executable_in_path(prog_name, executables)

\* The loop of find_inkscape_1_0 over the lines of stdout, from line i on.
RECURSIVE ScanVersion(_, _, _)
ScanVersion(stdout, i, executable) ==
    IF i > Len(stdout)
    THEN LeafResult(PyNone, << <<"Can't determinate inkscape version">> >>, TRUE,
                    EmptyKwargs)
    ELSE IF stdout[i].matches
         THEN IF stdout[i].major >= 1
              THEN LeafResult(PyTrue,
                              << <<"inkscape=", stdout[i].found_version, " is found">> >>,
                              TRUE, PathKwargs(executable))
              ELSE LeafResult(PyFalse,
                              << <<"inkscape>=1.0 is not found (but inkscape=",
                                   stdout[i].found_version, " is found)">> >>,
                              TRUE, EmptyKwargs)
         ELSE ScanVersion(stdout, i + 1, executable)

\* The try block catches KeyError and OSError only.
find_inkscape_1_0(executable_path, executables, call) ==
    LET found == find_executable("inkscape", executable_path, executables)
        not_found == Returns(LeafResult(PyFalse, << <<"inkscape is not found">> >>,
                                        TRUE, EmptyKwargs))
    IN
    IF ~HasItem(found, "path") THEN not_found
    ELSE IF call.status \in {"KeyError", "OSError"} THEN not_found
    ELSE IF call.status # "ok" THEN Raises(call.status)
    ELSE Returns(ScanVersion(call.stdout, 1, GetItem(found, "path")))

OsName == "linux"

help_message_with_url(section_name, executable_name) ==
    << <<"Please follow installation instructions at ">>,
       <<"https://textext.github.io/textext/install/", OsName, ".html#", OsName,
         "-install-", section_name>> >>
    \o (IF executable_name # ""
        THEN << <<"If ", executable_name,
                  " is installed in custom location, specify it via ">>,
                <<"       --", executable_name, "-executable=<path-to-",
                  executable_name, ">" >>,
                <<"and run setup.py again">> >>
        ELSE <<>>)

LeafProbe(fn, args) == Requirement(<<fn>> \o args, [fn |-> fn, args |-> args])

Callback(fn, name) == [fn |-> fn, name |-> name]

\* LatexRequirement registering every engine under the first engine's name.
LatexRequirementOneName(chk, prog_name, name) ==
    AppendMessage(
      OnSuccess(LeafProbe("find_executable", <<prog_name>>),
                Callback("add_latex", "pdflatex")),
      "ERROR", help_message_with_url("preparation", name))

LatexRequirement(chk, prog_name, name) ==
    AppendMessage(
      OnSuccess(LeafProbe("find_executable", <<prog_name>>), Callback("add_latex", name)),
      "ERROR", help_message_with_url("preparation", name))

\* textext_requirements as check() composes it.
TextextRequirements(chk) ==
    LET inkscape ==
          OnSuccess(
            AppendMessage(
              PrependMessage(LeafProbe("find_inkscape_1_0", <<>>),
                             "ANY", << <<"Detect inkscape>=1.0">> >>),
              "ERROR", help_message_with_url("preparation", "inkscape")),
            Callback("set_inkscape", "set_inkscape"))
        latex ==
          AppendMessage(
            OverwriteCheckMessage(
              ReqOr(ReqOr(LatexRequirement(chk, chk.pdflatex_prog_name, "pdflatex"),
                          LatexRequirement(chk, chk.lualatex_prog_name, "lualatex")),
                    LatexRequirement(chk, chk.xelatex_prog_name, "xelatex")),
              << <<"Detect *latex">> >>),
            "ERROR", help_message_with_url("preparation", ""))
        gui ==
          AppendMessage(
            OverwriteCheckMessage(
              ReqOr(AppendMessage(
                      OnSuccess(LeafProbe("find_pygtk3", <<>>),
                                Callback("set_pygtk", "set_pygtk")),
                      "ERROR", help_message_with_url("gtk3", "")),
                    AppendMessage(
                      OnSuccess(LeafProbe("find_tkinter", <<>>),
                                Callback("set_tkinter", "set_tkinter")),
                      "ERROR", help_message_with_url("tkinter", ""))),
              << <<"Detect GUI library">> >>),
            "ERROR", help_message_with_url("gui-library", ""))
    IN OverwriteCheckMessage(ReqAnd(ReqAnd(inkscape, latex), gui),
                             << <<"TexText requirements">> >>)

\* The outcomes each leaf probe can have over the environments in scope.
ExecutableOutcomes(prog_name) ==
    {Returns(find_executable(prog_name, executable_path, executables)) :
        executable_path \in ConfigValues(prog_name),
        executables \in SUBSET CandidatePaths(prog_name)}

InkscapeOutcomes ==
    {find_inkscape_1_0(executable_path, executables, call) :
        executable_path \in ConfigValues("inkscape"),
        executables \in SUBSET CandidatePaths("inkscape"),
        call \in CallOutcomes}

GtkOutcomes == {find_pygtk3(call) : call \in CallOutcomes}

TkinterOutcomes == {find_tkinter(call) : call \in CallOutcomes}

Init ==
    /\ pc = "constructed"
    /\ checker = NewChecker
    /\ req = NoResult
    /\ raw_result = NoResult
    /\ check_result = NoResult
    /\ log = <<>>
    /\ retval = PyNone
    /\ exc = "none"
    /\ ncv = PyNone
    /\ tri = TriIdle

\* The end of check(): an exception raised by the evaluation leaves check()
\* where it was raised; otherwise the result is flattened, its critical
\* errors are marked and its value is returned.
ReturnOrRaise(textext_requirements, r) ==
    /\ req' = textext_requirements
    /\ log' = r.st.log
    /\ checker' = r.st.checker
    /\ exc' = r.st.exc
    /\ IF r.st.exc # "none"
       THEN /\ pc' = "raised"
            /\ UNCHANGED <<raw_result, check_result, retval, ncv>>
       ELSE /\ raw_result' = r.result
            /\ check_result' = MarkCriticalErrors(Flatten(r.result), PyTrue)
            /\ ncv' = PyTrue
            /\ retval' = check_result'.value
            /\ pc' = "done"

\* textext_requirements.check() and what follows it in check().
CheckAndReturn(textext_requirements, st) ==
    ReturnOrRaise(textext_requirements, Check(textext_requirements, st))

\* TexTextRequirementsChecker.check() in one environment: compose the
\* requirements, evaluate them, flatten, mark the critical errors, return
\* the value.
check ==
    /\ pc = "constructed"
    /\ \E inkscape \in InkscapeOutcomes,
          pdflatex \in ExecutableOutcomes("pdflatex"),
          lualatex \in ExecutableOutcomes("lualatex"),
          xelatex \in ExecutableOutcomes("xelatex"),
          gtk \in GtkOutcomes,
          tkinter \in TkinterOutcomes :
         CheckAndReturn(TextextRequirements(checker),
                        EvalState([find_inkscape_1_0 |-> inkscape,
                                   pdflatex |-> pdflatex,
                                   lualatex |-> lualatex,
                                   xelatex |-> xelatex,
                                   find_pygtk3 |-> gtk,
                                   find_tkinter |-> tkinter],
                                  <<>>, checker))
    /\ UNCHANGED tri

Next == check

Spec == Init /\ [][Next]_vars

-----------------------------------------------------------------------------
(* The trinary algebra on its own: inputs a, b, c and the operator applied. *)

TriInit ==
    /\ tri \in [a : TriValues, b : TriValues, c : TriValues, op : {"new"}, res : {PyNone}]
    /\ pc = "trinary"
    /\ req = NoResult
    /\ checker = NoResult
    /\ raw_result = NoResult
    /\ check_result = NoResult
    /\ log = <<>>
    /\ retval = PyNone
    /\ exc = "none"
    /\ ncv = PyNone

TriFrame == UNCHANGED <<pc, req, checker, raw_result, check_result, log, retval, exc, ncv>>

TriApplyAnd ==
    /\ tri.op = "new"
    /\ tri' = [tri EXCEPT !.op = "and", !.res = TrinaryAnd(tri.a, tri.b)]
    /\ TriFrame

TriApplyOr ==
    /\ tri.op = "new"
    /\ tri' = [tri EXCEPT !.op = "or", !.res = TrinaryOr(tri.a, tri.b)]
    /\ TriFrame

TriApplyInvert ==
    /\ tri.op = "new"
    /\ tri' = [tri EXCEPT !.op = "invert", !.res = TrinaryInvert(tri.a)]
    /\ TriFrame

TriApplyEq ==
    /\ tri.op = "new"
    /\ tri' = [tri EXCEPT !.op = "eq",
                          !.res = IF TrinaryEq(tri.a, tri.b) THEN PyTrue ELSE PyFalse]
    /\ TriFrame

TriNext == TriApplyAnd \/ TriApplyOr \/ TriApplyInvert \/ TriApplyEq

SpecTrinary == TriInit /\ [][TriNext]_vars

-----------------------------------------------------------------------------
(* Strong Kleene logic, stated independently of the code: False < Unknown <
   True, AND is the minimum, OR the maximum, NOT the reflection. *)

Rank(v) == CASE v = PyFalse -> 0 [] v = PyNone -> 1 [] v = PyTrue -> 2

Unrank(n) == CASE n = 0 -> PyFalse [] n = 1 -> PyNone [] n = 2 -> PyTrue

MinRank(a, b) == IF Rank(a) <= Rank(b) THEN a ELSE b

MaxRank(a, b) == IF Rank(a) >= Rank(b) THEN a ELSE b

KleeneNot(a) == Unrank(2 - Rank(a))

KleeneAll(values) ==
    IF \E i \in DOMAIN values : values[i] = PyFalse THEN PyFalse
    ELSE IF \E i \in DOMAIN values : values[i] = PyNone THEN PyNone
    ELSE PyTrue

KleeneAny(values) ==
    IF \E i \in DOMAIN values : values[i] = PyTrue THEN PyTrue
    ELSE IF \E i \in DOMAIN values : values[i] = PyNone THEN PyNone
    ELSE PyFalse

\* C5: for all a, b, c in {True, False, Unknown}, AND and OR are commutative
\* and associative, NOT(NOT(a)) == a, AND(a, False) == False,
\* OR(a, True) == True, AND(True, Unknown) == Unknown,
\* OR(False, Unknown) == Unknown, and the three operators are the strong
\* Kleene connectives (minimum, maximum, reflection); the value an applied
\* operator returned is the Kleene value of its operands.
C5_TrinaryIsKleene ==
    pc = "trinary" =>
      LET a == tri.a
          b == tri.b
          c == tri.c
      IN
      /\ TrinaryEq(TrinaryAnd(a, b), TrinaryAnd(b, a))
      /\ TrinaryEq(TrinaryOr(a, b), TrinaryOr(b, a))
      /\ TrinaryEq(TrinaryAnd(TrinaryAnd(a, b), c), TrinaryAnd(a, TrinaryAnd(b, c)))
      /\ TrinaryEq(TrinaryOr(TrinaryOr(a, b), c), TrinaryOr(a, TrinaryOr(b, c)))
      /\ TrinaryEq(TrinaryInvert(TrinaryInvert(a)), a)
      /\ TrinaryEq(TrinaryAnd(a, PyFalse), PyFalse)
      /\ TrinaryEq(TrinaryOr(a, PyTrue), PyTrue)
      /\ TrinaryEq(TrinaryAnd(PyTrue, PyNone), PyNone)
      /\ TrinaryEq(TrinaryOr(PyFalse, PyNone), PyNone)
      /\ TrinaryAnd(a, b) = MinRank(a, b)
      /\ TrinaryOr(a, b) = MaxRank(a, b)
      /\ TrinaryInvert(a) = KleeneNot(a)
      /\ (tri.op = "and" => tri.res = MinRank(a, b))
      /\ (tri.op = "or" => tri.res = MaxRank(a, b))
      /\ (tri.op = "invert" => tri.res = KleeneNot(a))
      /\ (tri.op = "eq" => (tri.res = PyTrue <=> a = b))

\* C5 witness: AND applied to True and Unknown has returned Unknown.
C5_Witness ==
    /\ tri.op = "and"
    /\ tri.a = PyTrue
    /\ tri.b = PyNone
    /\ tri.res = PyNone

-----------------------------------------------------------------------------
(* Result trees: the nodes by their path from the root. *)

RECURSIVE NodePaths(_)
NodePaths(t) ==
    {<<>>} \cup UNION {{<<i>> \o p : p \in NodePaths(t.nested[i])} :
                         i \in 1..Len(t.nested)}

RECURSIVE NodeAt(_, _)
NodeAt(t, p) == IF p = <<>> THEN t ELSE NodeAt(t.nested[Head(p)], Tail(p))

IsComposite(n) == n.is_and_node \/ n.is_or_node \/ n.is_not_node

ChildValues(n) == [i \in 1..Len(n.nested) |-> n.nested[i].value]

\* The value a composite node should carry, given the children it has.
ValueOfChildren(n) ==
    CASE n.is_and_node -> KleeneAll(ChildValues(n))
      [] n.is_or_node -> KleeneAny(ChildValues(n))
      [] n.is_not_node -> KleeneNot(n.nested[1].value)

\* C6: flatten() keeps the value of the root, and every And/Or/Not node of
\* the flattened tree carries the Kleene AND/OR/NOT of the values of the
\* children it now has.
C6_FlattenPreservesValue ==
    pc = "flat" =>
      /\ check_result.value = raw_result.value
      /\ \A p \in NodePaths(check_result) :
           LET n == NodeAt(check_result, p) IN
           IsComposite(n) => n.value = ValueOfChildren(n)

\* C6 witness: flatten() has merged nodes (the root now has three or more
\* children) in a tree whose value is Unknown.
C6_Witness ==
    /\ pc = "flat"
    /\ check_result # raw_result
    /\ Len(check_result.nested) >= 3
    /\ check_result.value = PyNone

Kind(n) ==
    IF n.is_and_node THEN "and" ELSE IF n.is_or_node THEN "or"
    ELSE IF n.is_not_node THEN "not" ELSE "leaf"

\* A chain of binary nodes of one kind nested entirely through the first
\* child: the second child of each is an operand, of another kind.
RECURSIVE IsChainThroughFirst(_, _)
IsChainThroughFirst(t, kind) ==
    /\ Kind(t) = kind
    /\ Len(t.nested) = 2
    /\ Kind(t.nested[2]) # kind
    /\ (Kind(t.nested[1]) = kind => IsChainThroughFirst(t.nested[1], kind))

RECURSIVE IsChainThroughLast(_, _)
IsChainThroughLast(t, kind) ==
    /\ Kind(t) = kind
    /\ Len(t.nested) = 2
    /\ Kind(t.nested[1]) # kind
    /\ (Kind(t.nested[2]) = kind => IsChainThroughLast(t.nested[2], kind))

\* The operands of a chain, left to right.
RECURSIVE OperandsThroughFirst(_, _)
OperandsThroughFirst(t, kind) ==
    (IF Kind(t.nested[1]) = kind THEN OperandsThroughFirst(t.nested[1], kind)
     ELSE <<t.nested[1]>>) \o <<t.nested[2]>>

RECURSIVE OperandsThroughLast(_, _)
OperandsThroughLast(t, kind) ==
    <<t.nested[1]>> \o (IF Kind(t.nested[2]) = kind
                        THEN OperandsThroughLast(t.nested[2], kind)
                        ELSE <<t.nested[2]>>)

\* A flattened node is the one node of the chain's kind whose children are
\* the operands (each flattened in turn), in their order.
IsFlatChain(flat, kind, operands) ==
    /\ Kind(flat) = kind
    /\ Len(flat.nested) = Len(operands)
    /\ \A i \in 1..Len(operands) :
         /\ flat.nested[i] = Flatten(operands[i])
         /\ Kind(flat.nested[i]) # kind

\* C7: a chain of binary And nodes (or of binary Or nodes) nested entirely
\* through the first child, or entirely through the last child, flattens
\* into a single node of that kind whose children are the chain's operands
\* in their original left-to-right order.
C7_FlattenMergesChains ==
    pc = "flat" =>
      \A kind \in {"and", "or"} :
        /\ IsChainThroughFirst(raw_result, kind) =>
             IsFlatChain(check_result, kind, OperandsThroughFirst(raw_result, kind))
        /\ IsChainThroughLast(raw_result, kind) =>
             IsFlatChain(check_result, kind, OperandsThroughLast(raw_result, kind))

\* C7 witness: And(Leaf(T), And(Leaf(F), And(Leaf(U), Leaf(T)))) has been
\* flattened into one And node whose children are the four leaves in order.
C7_Witness ==
    /\ pc = "flat"
    /\ IsChainThroughLast(raw_result, "and")
    /\ Len(OperandsThroughLast(raw_result, "and")) = 4
    /\ check_result.is_and_node
    /\ ChildValues(check_result) = <<PyTrue, PyFalse, PyNone, PyTrue>>
    /\ \A i \in 1..4 : Kind(check_result.nested[i]) = "leaf"

\* The non-critical value in force at the node at path p: v, inverted once
\* for every Not node above it.
RECURSIVE EffectiveNonCritical(_, _, _)
EffectiveNonCritical(t, p, v) ==
    IF p = <<>> THEN v
    ELSE EffectiveNonCritical(t.nested[Head(p)], Tail(p),
                              IF t.is_not_node THEN KleeneNot(v) ELSE v)

ParentPath(p) == SubSeq(p, 1, Len(p) - 1)

\* C8: after mark_critical_errors(v) on a root, a node is critical exactly
\* when it is the root or a child of a critical And/Or/Not node, its value
\* is not Unknown, and its value differs from v inverted once per Not node
\* on the path from the root.
C8_CriticalMarking ==
    pc \in {"marked", "flat_marked"} =>
      \A p \in NodePaths(check_result) :
        LET n == NodeAt(check_result, p)
            reached == \/ p = <<>>
                       \/ /\ NodeAt(check_result, ParentPath(p)).is_critical = PyTrue
                          /\ IsComposite(NodeAt(check_result, ParentPath(p)))
        IN (n.is_critical = PyTrue) <=>
             /\ reached
             /\ n.value # PyNone
             /\ n.value # EffectiveNonCritical(check_result, p, ncv)

\* C8 witness: an And root of value False with children [False, True],
\* marked with non_critical_value=True: the root and the False child are
\* critical, the True child is not.
C8_Witness ==
    /\ pc = "marked"
    /\ ncv = PyTrue
    /\ check_result.is_and_node
    /\ check_result.value = PyFalse
    /\ ChildValues(check_result) = <<PyFalse, PyTrue>>
    /\ check_result.is_critical = PyTrue
    /\ check_result.nested[1].is_critical = PyTrue
    /\ check_result.nested[2].is_critical # PyTrue

-----------------------------------------------------------------------------
(* The history of one top-level check(). *)

RECURSIVE SubReqs(_)
SubReqs(r) ==
    {r} \cup
    CASE r.criteria.fn \in {"and_impl", "or_impl"} ->
           SubReqs(r.criteria.self) \cup SubReqs(r.criteria.rhs)
      [] r.criteria.fn = "invert_impl" -> SubReqs(r.criteria.self)
      [] OTHER -> {}

OutcomeType(v) ==
    CASE v = PyTrue -> "SUCCESS" [] v = PyFalse -> "ERROR" [] v = PyNone -> "UNKNOWN"

\* The messages the criteria returned for the check() that returns at
\* log[j]: those of the last "probed" entry of that object and depth.
ProbedMessages(j) ==
    LET i == CHOOSE i \in 1..j :
               /\ log[i].ev = "probed" /\ log[i].id = log[j].id
               /\ log[i].depth = log[j].depth
               /\ \A k \in (i + 1)..j :
                    ~(log[k].ev = "probed" /\ log[k].id = log[j].id
                      /\ log[k].depth = log[j].depth)
    IN log[i].messages

\* What the decorations are applied to: the overwrite message when one is
\* set, the messages of the criteria otherwise.
BaseMessages(r, j) ==
    IF r.overwrite_messages # <<>> THEN r.overwrite_messages ELSE ProbedMessages(j)

\* Every check() in the history returned its messages in the order given
\* by Order(r, outcome type, base messages).
ReturnsInOrder(Order(_, _, _)) ==
    \A j \in 1..Len(log) :
      log[j].ev = "ret" =>
        \A r \in SubReqs(req) :
          r.id = log[j].id =>
            log[j].messages = Order(r, OutcomeType(log[j].value), BaseMessages(r, j))

ClaimedOrder(r, t, base) ==
    r.prepended_messages["ANY"] \o r.prepended_messages[t] \o base
      \o r.appended_messages[t] \o r.appended_messages["ANY"]

CodeOrder(r, t, base) ==
    r.prepended_messages[t] \o r.prepended_messages["ANY"] \o base
      \o r.appended_messages["ANY"] \o r.appended_messages[t]

\* C3 as claimed: check() returns prepend[ANY] + prepend[outcome] + original
\* messages + append[outcome] + append[ANY].
C3_ClaimedMessageOrder ==
    pc = "checked" => ReturnsInOrder(ClaimedOrder)

\* C3 as amended: check() returns prepend[outcome] + prepend[ANY] + base +
\* append[ANY] + append[outcome], where outcome is the bucket selected by the
\* result's value and base is the overwrite message if one is set and the
\* criteria's messages otherwise.
C3_MessageOrder ==
    pc = "checked" => ReturnsInOrder(CodeOrder)

\* C3 witness: the Requirement with prepend[ANY]=[a], prepend[SUCCESS]=[b],
\* probe message [c], append[SUCCESS]=[d], append[ANY]=[e] was checked, the
\* probe returned True, and the result carries [b, a, c, e, d].
C3_Witness ==
    /\ pc = "checked"
    /\ \E j \in 1..Len(log) :
         /\ log[j].ev = "ret"
         /\ log[j].id = <<"r1">>
         /\ log[j].value = PyTrue
         /\ log[j].messages = << <<"b">>, <<"a">>, <<"c">>, <<"e">>, <<"d">> >>

\* The indices of the history entries of kind ev at call depth d.
EntriesAt(ev, d) == {i \in 1..Len(log) : log[i].ev = ev /\ log[i].depth = d}

CallbackNames(callbacks) == [i \in 1..Len(callbacks) |-> callbacks[i].name]

\* The callbacks a Requirement has registered for the outcome of value v.
CallbacksFor(r, v) ==
    CASE v = PyTrue -> r.on_success_callbacks
      [] v = PyFalse -> r.on_failure_callbacks
      [] v = PyNone -> r.on_unknown_callbacks

\* The names of the callbacks called between history entries i and j.
RECURSIVE CallbacksBetween(_, _)
CallbacksBetween(i, j) ==
    IF i >= j THEN <<>>
    ELSE (IF log[i].ev = "cb" /\ log[i].depth = log[j].depth
          THEN <<log[i].cb>> ELSE <<>>) \o CallbacksBetween(i + 1, j)

\* C4: in every check() of (L & R) or (L | R), L is evaluated first and R is
\* then evaluated exactly once whatever L's value was; the callbacks R has
\* registered for its outcome fire exactly once, and both operand results
\* are the children [L, R] of the composite node.
C4_NoShortCircuit ==
    (pc = "checked" /\ req.criteria.fn \in {"and_impl", "or_impl"}) =>
      LET L == req.criteria.self
          R == req.criteria.rhs
          calls == EntriesAt("call", 1)
          rets == EntriesAt("ret", 1)
      IN
      /\ Cardinality(calls) = 2
      /\ Cardinality(rets) = 2
      /\ \E c1, c2 \in calls, r1, r2 \in rets :
           /\ c1 < r1 /\ r1 < c2 /\ c2 < r2
           /\ log[c1].id = L.id /\ log[r1].id = L.id
           /\ log[c2].id = R.id /\ log[r2].id = R.id
           /\ CallbacksBetween(c2, r2) = CallbackNames(CallbacksFor(R, log[r2].value))
           /\ Len(raw_result.nested) = 2
           /\ raw_result.nested[1].value = log[r1].value
           /\ raw_result.nested[1].messages = log[r1].messages
           /\ raw_result.nested[2].value = log[r2].value
           /\ raw_result.nested[2].messages = log[r2].messages
           /\ raw_result.value =
                IF req.criteria.fn = "and_impl"
                THEN MinRank(log[r1].value, log[r2].value)
                ELSE MaxRank(log[r1].value, log[r2].value)

\* C4 witness: r1 & r2 was checked, r1 failed, and r2 was still checked:
\* its on_failure callbacks f2 and f3 were called once each, after r1's f1.
C4_Witness ==
    /\ pc = "checked"
    /\ req.criteria.fn = "and_impl"
    /\ req.criteria.self.id = <<"r1">>
    /\ req.criteria.rhs.id = <<"r2">>
    /\ ChildValues(raw_result) = <<PyFalse, PyFalse>>
    /\ \E j \in EntriesAt("ret", 1) :
         /\ log[j].id = <<"r2">>
         /\ CallbacksBetween(1, j) = <<"f1", "f2", "f3">>

\* How often the object id stands as an operand in the expression r.
RECURSIVE Occurrences(_, _)
Occurrences(id, r) ==
    (IF r.id = id THEN 1 ELSE 0) +
    CASE r.criteria.fn \in {"and_impl", "or_impl"} ->
           Occurrences(id, r.criteria.self) + Occurrences(id, r.criteria.rhs)
      [] r.criteria.fn = "invert_impl" -> Occurrences(id, r.criteria.self)
      [] OTHER -> 0

Count(ev, id) == Cardinality({i \in 1..Len(log) : log[i].ev = ev /\ log[i].id = id})

CountCallback(name) ==
    Cardinality({i \in 1..Len(log) : log[i].ev = "cb" /\ log[i].cb = name})

CountOutcome(id, v) ==
    Cardinality({i \in 1..Len(log) :
                   log[i].ev = "ret" /\ log[i].id = id /\ log[i].value = v})

\* C10 as claimed: during one top-level check() each Requirement's probe
\* runs at most once and each of its callbacks fires at most once, also when
\* the same Requirement object stands as more than one operand.
C10_AtMostOnce ==
    pc = "checked" =>
      \A r \in SubReqs(req) :
        /\ Count("call", r.id) <= 1
        /\ \A v \in TriValues :
             \A i \in 1..Len(CallbacksFor(r, v)) :
               CountCallback(CallbacksFor(r, v)[i].name) <= 1

\* C10 as amended: during one top-level check() a Requirement is evaluated
\* once for each place it stands at as an operand (there is no caching): its
\* probe runs as many times as the object occurs in the expression, and each
\* callback fires once per evaluation with the outcome it is registered for.
C10_OncePerOccurrence ==
    pc = "checked" =>
      \A r \in SubReqs(req) :
        /\ Count("call", r.id) = Occurrences(r.id, req)
        /\ Count("ret", r.id) = Occurrences(r.id, req)
        /\ \A v \in TriValues :
             \A i \in 1..Len(CallbacksFor(r, v)) :
               CountCallback(CallbacksFor(r, v)[i].name) = CountOutcome(r.id, v)

\* C10 witness: r1 stands at two places of the expression and its probe has
\* run twice.
C10_Witness ==
    /\ pc = "checked"
    /\ Occurrences(<<"r1">>, req) = 2
    /\ Count("call", <<"r1">>) = 2
    /\ CountCallback("s1") = 2

-----------------------------------------------------------------------------
(* TexTextRequirementsChecker.check() *)

\* The value the leaf probe of the object id returned.
ProbeValue(id) ==
    log[CHOOSE i \in 1..Len(log) : log[i].ev = "probed" /\ log[i].id = id].value

InkscapeId == <<"find_inkscape_1_0">>
LatexId(name) == <<"find_executable", name>>
GtkId == <<"find_pygtk3">>
TkinterId == <<"find_tkinter">>

LatexNames == {"pdflatex", "lualatex", "xelatex"}

\* The result node of each leaf in the tree check() got from the
\* requirements: ((inkscape & ((pdflatex | lualatex) | xelatex)) & (gtk | tk)).
InkscapeNode == raw_result.nested[1].nested[1]
LatexNode(name) ==
    CASE name = "pdflatex" -> raw_result.nested[1].nested[2].nested[1].nested[1]
      [] name = "lualatex" -> raw_result.nested[1].nested[2].nested[1].nested[2]
      [] name = "xelatex" -> raw_result.nested[1].nested[2].nested[2]
GtkNode == raw_result.nested[2].nested[1]
TkinterNode == raw_result.nested[2].nested[2]

\* C1: check() returns the Kleene value of
\* inkscape AND (pdflatex OR lualatex OR xelatex) AND (GTK3 OR TkInter) of
\* the values the probes returned; flattening, critical marking and message
\* decoration do not change it.
C1_Verdict ==
    pc = "done" =>
      LET verdict ==
            MinRank(ProbeValue(InkscapeId),
                    MinRank(MaxRank(ProbeValue(LatexId("pdflatex")),
                                    MaxRank(ProbeValue(LatexId("lualatex")),
                                            ProbeValue(LatexId("xelatex")))),
                            MaxRank(ProbeValue(GtkId), ProbeValue(TkinterId))))
      IN /\ retval = verdict
         /\ raw_result.value = verdict
         /\ check_result.value = verdict

\* C1 witness: inkscape and TkInter were found and no LaTeX engine was;
\* check() returned False from the flattened, marked tree.
C1_Witness ==
    /\ pc = "done"
    /\ retval = PyFalse
    /\ ProbeValue(InkscapeId) = PyTrue
    /\ \A name \in LatexNames : ProbeValue(LatexId(name)) = PyFalse
    /\ ProbeValue(GtkId) = PyFalse
    /\ ProbeValue(TkinterId) = PyTrue
    /\ Len(check_result.nested) = 3
    /\ check_result.is_critical = PyTrue

\* C2: after check() on a freshly constructed checker,
\* available_tex_to_pdf_converters maps an engine name to a path exactly when
\* that engine's probe returned True, and to the path of that engine's own
\* result node; inkscape_executable is set exactly when the inkscape probe
\* returned True; pygtk_is_found / tkinter_is_found are True exactly when the
\* respective probe returned True.
C2_Discovery ==
    pc = "done" =>
      /\ \A name \in LatexNames :
           /\ name \in DOMAIN checker.available_tex_to_pdf_converters
                <=> ProbeValue(LatexId(name)) = PyTrue
           /\ name \in DOMAIN checker.available_tex_to_pdf_converters
                => /\ LatexNode(name).value = PyTrue
                   /\ checker.available_tex_to_pdf_converters[name]
                        = LatexNode(name).kwargs["path"]
      /\ DOMAIN checker.available_tex_to_pdf_converters \subseteq LatexNames
      /\ checker.inkscape_executable # NoPath <=> ProbeValue(InkscapeId) = PyTrue
      /\ ProbeValue(InkscapeId) = PyTrue
           => checker.inkscape_executable = InkscapeNode.kwargs["path"]
      /\ checker.pygtk_is_found <=> ProbeValue(GtkId) = PyTrue
      /\ checker.tkinter_is_found <=> ProbeValue(TkinterId) = PyTrue

\* C2 witness: pdflatex was not found, lualatex was found in the search path
\* and xelatex at its configured path: exactly these two are recorded, each
\* with its own path.
C2_Witness ==
    /\ pc = "done"
    /\ ProbeValue(LatexId("pdflatex")) = PyFalse
    /\ DOMAIN checker.available_tex_to_pdf_converters = {"lualatex", "xelatex"}
    /\ checker.available_tex_to_pdf_converters["lualatex"]
         = PathJoin(SystemPath[1], "lualatex")
    /\ checker.available_tex_to_pdf_converters["xelatex"] = ConfiguredPath("xelatex")
    /\ checker.inkscape_executable = PathJoin(SystemPath[2], "inkscape")
    /\ checker.pygtk_is_found
    /\ ~checker.tkinter_is_found

\* C9: no probe execution failure (executable missing, OS error at launch,
\* non-zero exit) propagates as an exception out of a leaf probe or out of
\* TexTextRequirementsChecker.check(): check() always returns.
C9_NoFailurePropagates ==
    /\ pc # "raised"
    /\ exc = "none"

\* The history entry at which the criteria returned for the check() that
\* returns at log[j].
ProbedIndex(j) ==
    CHOOSE i \in 1..j :
      /\ log[i].ev = "probed" /\ log[i].id = log[j].id
      /\ log[i].depth = log[j].depth
      /\ \A k \in (i + 1)..j :
           ~(log[k].ev = "probed" /\ log[k].id = log[j].id
             /\ log[k].depth = log[j].depth)

\* Every message of the append buckets of r.
AppendBucketElements(r) ==
    UNION {{r.appended_messages[t][n] : n \in 1..Len(r.appended_messages[t])} :
             t \in MessageTypes}

\* Every message of the prepend buckets of r that apply to outcome type t.
PrependBucketElements(r, t) ==
    UNION {{r.prepended_messages[b][n] : n \in 1..Len(r.prepended_messages[b])} :
             b \in {"ANY", t}}

\* C11: during Requirement.check() only the callbacks registered for the
\* result's outcome class fire, each exactly once and in registration order;
\* they fire after all prepended messages are on the result and before any
\* appended message is, so the messages a callback observes are the
\* prepended buckets and the base messages and contain no element of the
\* append buckets.
C11_CallbacksBetweenPrependAndAppend ==
    pc = "checked" =>
      \A j \in 1..Len(log) :
        log[j].ev = "ret" =>
          \A r \in SubReqs(req) :
            r.id = log[j].id =>
              LET i == ProbedIndex(j)
                  t == OutcomeType(log[j].value)
                  registered == CallbackNames(CallbacksFor(r, log[j].value))
                  observed == r.prepended_messages[t] \o r.prepended_messages["ANY"]
                                \o BaseMessages(r, j)
              IN
              /\ j - i - 1 = Len(registered)
              /\ \A k \in 1..Len(registered) :
                   /\ log[i + k].ev = "cb"
                   /\ log[i + k].id = r.id
                   /\ log[i + k].depth = log[j].depth
                   /\ log[i + k].cb = registered[k]
                   /\ log[i + k].value = log[j].value
                   /\ log[i + k].messages = observed
                   /\ \A n \in 1..Len(log[i + k].messages) :
                        log[i + k].messages[n] \notin AppendBucketElements(r)
                   /\ \A m \in PrependBucketElements(r, t) :
                        \E n \in 1..Len(log[i + k].messages) :
                          log[i + k].messages[n] = m
              /\ log[j].messages =
                   observed \o r.appended_messages["ANY"] \o r.appended_messages[t]

\* C11 witness: r2 failed; its on_failure callbacks f2 and f3 were called in
\* this order and nothing else was, each seeing [q, p1, p2, ow], and the
\* result then returned with x and y appended.
C11_Witness ==
    /\ pc = "checked"
    /\ \E j \in 1..Len(log) :
         /\ log[j].ev = "ret"
         /\ log[j].id = <<"r2">>
         /\ log[j].value = PyFalse
         /\ j > 3
         /\ log[j - 3].ev = "probed"
         /\ log[j - 2].ev = "cb" /\ log[j - 2].cb = "f2"
         /\ log[j - 1].ev = "cb" /\ log[j - 1].cb = "f3"
         /\ log[j - 2].messages = << <<"q">>, <<"p1">>, <<"p2">>, <<"ow">> >>
         /\ log[j - 1].messages = << <<"q">>, <<"p1">>, <<"p2">>, <<"ow">> >>
         /\ log[j].messages = << <<"q">>, <<"p1">>, <<"p2">>, <<"ow">>,
                                 <<"y">>, <<"x1">>, <<"x2">> >>

IsCritical(n) == n.is_critical = PyTrue

HasCriticalChild(n) == \E i \in 1..Len(n.nested) : IsCritical(n.nested[i])

CriticalLeaves(t) ==
    {p \in NodePaths(t) : ~IsComposite(NodeAt(t, p)) /\ IsCritical(NodeAt(t, p))}

\* C12: for every result tree built by composing Requirements with &, | and
\* ~ whose root value is False, after flatten() followed by
\* mark_critical_errors() (non_critical_value=True) the root is critical,
\* every critical And/Or/Not node has at least one critical child, and at
\* least one leaf node is critical.
C12_RootCauseMarked ==
    (pc = "flat_marked" /\ ncv = PyTrue /\ raw_result.value = PyFalse) =>
      /\ IsCritical(check_result)
      /\ \A p \in NodePaths(check_result) :
           LET n == NodeAt(check_result, p) IN
           (IsComposite(n) /\ IsCritical(n)) => HasCriticalChild(n)
      /\ CriticalLeaves(check_result) # {}

\* C12 witness: a False root, flattened and marked, that holds a critical
\* Not node over a critical And node over critical leaves, next to a child
\* that is Unknown and not critical.
C12_Witness ==
    /\ pc = "flat_marked"
    /\ ncv = PyTrue
    /\ raw_result.value = PyFalse
    /\ check_result.is_and_node
    /\ IsCritical(check_result)
    /\ \E i, j \in 1..Len(check_result.nested) :
         /\ check_result.nested[i].value = PyNone
         /\ ~IsCritical(check_result.nested[i])
         /\ check_result.nested[j].is_not_node
         /\ IsCritical(check_result.nested[j])
         /\ check_result.nested[j].nested[1].is_and_node
         /\ IsCritical(check_result.nested[j].nested[1])
         /\ \A k \in 1..Len(check_result.nested[j].nested[1].nested) :
              /\ ~IsComposite(check_result.nested[j].nested[1].nested[k])
              /\ IsCritical(check_result.nested[j].nested[1].nested[k])

=============================================================================
